---- MODULE Spec2Model ----
(***************************************************************************)
(* State cells of function components (React.useState) as used by the      *)
(* components of this repository: Todo, Theme and the hover hook useHover  *)
(* with its consumer Info.  The components are translated from the         *)
(* sources; the cell store and the render scheduler they run on are not    *)
(* part of the repository and are modelled from the specification          *)
(* (sections 3, 4.1, 4.2 and 5).                                           *)
(***************************************************************************)
EXTENDS Integers, Sequences, FiniteSets, TLC

\* ------------------------------------------------------------- bounds
\* Longest queue of update requests one cell may hold between two passes.
MaxPending == 2
\* Longest todo list.
MaxTodos == 2
\* Clicks on the theme button the observer follows.
MaxClicks == 8

\* ------------------------------------------------------------- state
VARIABLES
    status,       \* instance -> "clean" | "dirty" | "failed"
    cells,        \* instance -> sequence of cell values, by call position
    pending,      \* instance -> per cell, the FIFO of update requests
    renderQueue,  \* render passes enqueued for the next scheduling turns
    view,         \* instance -> what its last render pass returned
    callCount,    \* instance -> cell-call count of its last pass
    sites,        \* instance -> call site bound to each cell position
    log           \* instance -> handler calls seen by the observer

vars == <<status, cells, pending, renderQueue, view, callCount, sites, log>>

Hovers == {"info1", "info2"}
Instances == {"todo", "theme", "gated"} \cup Hovers

Kind(i) ==
    CASE i = "todo" -> "Todo"
      [] i = "theme" -> "Theme"
      [] i = "gated" -> "Gated"
      [] OTHER -> "Info"

\* Strings are sequences of characters.
Empty == <<>>
Blank == <<" ", " ", " ">>
Texts == {Empty, Blank, <<"a">>, <<"b">>}
\* What generateId may return: "_" and up to nine base-36 digits.
Ids == {"_i", "_k"}

\* ------------------------------------------------------------- updates
Value(v) == [kind |-> "value", arg |-> v]
Concat(text) == [kind |-> "concat", arg |-> text]
Filter(id) == [kind |-> "filter", arg |-> id]

Keep(todos, id) == SelectSeq(todos, LAMBDA todo : todo.id # id)

\* Mutant: the new record is put in front of the list.
ApplyUpdatePrepend(u, old, id) ==
    CASE u.kind = "value" -> u.arg
      [] u.kind = "concat" -> <<[text |-> u.arg, id |-> id]>> \o old
      [] u.kind = "filter" -> Keep(old, u.arg)

\* One update request applied to a cell's value; id is what generateId
\* returns when the updater runs.
ApplyUpdate(u, old, id) ==
    CASE u.kind = "value" -> u.arg
      [] u.kind = "concat" -> old \o <<[text |-> u.arg, id |-> id]>>
      [] u.kind = "filter" -> Keep(old, u.arg)

RECURSIVE ApplyFrom(_, _, _, _)
ApplyFrom(q, k, old, ids) ==
    IF k > Len(q) THEN old
    ELSE ApplyFrom(q, k + 1,
                   ApplyUpdate(q[k], old, IF k \in DOMAIN ids THEN ids[k] ELSE "_i"),
                   ids)

\* commitPendingUpdates: every queued request, in FIFO order per cell.
commitPendingUpdates(cs, pend, ids) ==
    [c \in DOMAIN cs |-> ApplyFrom(pend[c], 1, cs[c], ids)]

NoPending(cs) == [c \in DOMAIN cs |-> <<>>]

\* ------------------------------------------------------------- scheduler
Queued(q, i) == \E k \in 1..Len(q) : q[k] = i

\* Mutant: every call enqueues a pass.
scheduleRenderAlways(s, i) ==
    [s EXCEPT !.status[i] = "dirty", !.renderQueue = Append(@, i)]

\* scheduleRender: marks the instance dirty and enqueues one pass unless
\* one is queued already.
scheduleRender(s, i) ==
    [s EXCEPT !.status[i] = "dirty",
              !.renderQueue = IF Queued(@, i) THEN @ ELSE Append(@, i)]

\* requestUpdate: enqueues the request, mutates nothing, schedules.
requestUpdate(s, i, c, u) ==
    scheduleRender([s EXCEPT !.pending[i][c] = Append(@, u)], i)

Sched == [status |-> status, pending |-> pending, renderQueue |-> renderQueue]

Room(i, c) == status[i] # "failed" /\ Len(pending[i][c]) < MaxPending

Handled(s) ==
    /\ status' = s.status
    /\ pending' = s.pending
    /\ renderQueue' = s.renderQueue
    /\ UNCHANGED <<cells, view, callCount, sites>>

\* ------------------------------------------------------------- components
InitialCells(i) ==
    CASE Kind(i) = "Todo" -> <<<<>>, Empty>>
      [] Kind(i) = "Theme" -> <<"light">>
      [] Kind(i) = "Gated" -> <<FALSE, "x">>
      [] OTHER -> <<FALSE>>

\* useHover: [hovering, attrs]
useHover(cs) == [hovering |-> cs[1]]

\* The function bodies: what a pass over the committed cells returns.
Todo(cs) == [todos |-> cs[1], input |-> cs[2]]
Theme(cs) == [theme |-> cs[1],
              button |-> IF cs[1] = "light" THEN "dark" ELSE "light"]
Info(cs) == [hovering |-> useHover(cs).hovering,
             tooltip |-> useHover(cs).hovering = TRUE]
Gated(cs) == [open |-> cs[1], label |-> cs[Len(cs)]]

Render(i, cs) ==
    CASE Kind(i) = "Todo" -> Todo(cs)
      [] Kind(i) = "Theme" -> Theme(cs)
      [] Kind(i) = "Gated" -> Gated(cs)
      [] OTHER -> Info(cs)

\* The cell-producing calls a pass makes, in call order.
CallSites(i, cs) ==
    CASE Kind(i) = "Todo" -> <<"todos", "input">>
      [] Kind(i) = "Theme" -> <<"theme">>
      [] Kind(i) = "Gated" ->
            IF cs[1] THEN <<"open", "note", "label">> ELSE <<"open", "label">>
      [] OTHER -> <<"hovering">>

\* ------------------------------------------------------------- handlers
\* Mutant: the hovering cell is shared by every consumer of useHover.
mouseOverShared(i) ==
    /\ \A j \in Hovers : Room(j, 1)
    /\ Handled(requestUpdate(requestUpdate(Sched, "info1", 1, Value(TRUE)),
                             "info2", 1, Value(TRUE)))

mouseOver(i) ==
    /\ Room(i, 1)
    /\ Handled(requestUpdate(Sched, i, 1, Value(TRUE)))

\* Mutant: mouseOut copied from mouseOver without changing the value.
mouseOutTrue(i) ==
    /\ Room(i, 1)
    /\ Handled(requestUpdate(Sched, i, 1, Value(TRUE)))

mouseOut(i) ==
    /\ Room(i, 1)
    /\ Handled(requestUpdate(Sched, i, 1, Value(FALSE)))

\* Todo
onChange(text) ==
    /\ Room("todo", 2)
    /\ Handled(requestUpdate(Sched, "todo", 2, Value(text)))

\* Mutant: setTodos(todos.concat(...)) on the rendered list, no updater.
handleSubmitStale ==
    /\ Room("todo", 1)
    /\ Room("todo", 2)
    /\ \E id \in Ids :
          Handled(requestUpdate(
                    requestUpdate(Sched, "todo", 1,
                                  Value(view["todo"].todos
                                        \o <<[text |-> view["todo"].input, id |-> id]>>)),
                    "todo", 2, Value(Empty)))

handleSubmit ==
    /\ Room("todo", 1)
    /\ Room("todo", 2)
    /\ Handled(requestUpdate(
                 requestUpdate(Sched, "todo", 1, Concat(view["todo"].input)),
                 "todo", 2, Value(Empty)))

removeTodo(id) ==
    /\ Room("todo", 1)
    /\ Handled(requestUpdate(Sched, "todo", 1, Filter(id)))

\* Mutant: the button requests the theme already shown.
clickSame ==
    /\ Room("theme", 1)
    /\ Handled(requestUpdate(Sched, "theme", 1, Value(view["theme"].theme)))

\* Theme: the one rendered button requests the other theme.
click ==
    /\ Room("theme", 1)
    /\ Handled(requestUpdate(Sched, "theme", 1, Value(view["theme"].button)))

\* Gated
toggle ==
    /\ Room("gated", 1)
    /\ Handled(requestUpdate(Sched, "gated", 1, Value(~view["gated"].open)))

rename(label) ==
    /\ Room("gated", 2)
    /\ Handled(requestUpdate(Sched, "gated", 2, Value(label)))

\* ------------------------------------------------------------- render pass
\* Mutant: the counts are never compared.
MismatchIgnored(previous, now) == FALSE

Mismatch(previous, now) == previous # now

Count(q, kind) == Cardinality({k \in 1..Len(q) : q[k].kind = kind})

\* generateId draws from Math.random, once for each queued updater that
\* calls it; the draw for the request at position k of the queue is ids[k].
IdChoices(q) ==
    {ids \in [1..Len(q) -> Ids] :
        \A k \in 1..Len(q) : q[k].kind # "concat" => ids[k] = "_i"}

\* runPass: commitPendingUpdates, beginRender, the function body, then the
\* cell-call count is compared with the previous pass's.
RunPass(i) ==
    /\ renderQueue # <<>>
    /\ i = Head(renderQueue)
    /\ status[i] # "failed"
    /\ renderQueue' = Tail(renderQueue)
    /\ \E ids \in IdChoices(pending[i][1]) :
          LET committed == commitPendingUpdates(cells[i], pending[i], ids)
              called == CallSites(i, committed)
          IN  /\ cells' = [cells EXCEPT ![i] = committed]
              /\ pending' = [pending EXCEPT ![i] = NoPending(committed)]
              /\ IF Mismatch(callCount[i], Len(called))
                 THEN /\ status' = [status EXCEPT ![i] = "failed"]
                      /\ UNCHANGED <<view, callCount, sites>>
                 ELSE /\ status' = [status EXCEPT ![i] = "clean"]
                      /\ view' = [view EXCEPT ![i] = Render(i, committed)]
                      /\ callCount' = [callCount EXCEPT ![i] = Len(called)]
                      /\ sites' = [sites EXCEPT ![i] = called]

\* ------------------------------------------------------------- init
\* Every instance after mount: its first pass has run on the initial cells.
Init ==
    /\ status = [i \in Instances |-> "clean"]
    /\ cells = [i \in Instances |-> InitialCells(i)]
    /\ pending = [i \in Instances |-> NoPending(InitialCells(i))]
    /\ renderQueue = <<>>
    /\ view = [i \in Instances |-> Render(i, InitialCells(i))]
    /\ callCount = [i \in Instances |-> Len(CallSites(i, InitialCells(i)))]
    /\ sites = [i \in Instances |-> CallSites(i, InitialCells(i))]
    /\ log = [i \in Instances |-> <<>>]

\* ------------------------------------------------------------- hover
\* The observer keeps the last two handler calls of an instance.
LastTwo(l, e) == IF Len(l) < 2 THEN Append(l, e) ELSE <<l[2], e>>

Passes(S) == \E i \in S : RunPass(i) /\ UNCHANGED log

NextHover ==
    \/ \E i \in Hovers : mouseOver(i) /\ log' = [log EXCEPT ![i] = LastTwo(@, "over")]
    \/ \E i \in Hovers : mouseOut(i) /\ log' = [log EXCEPT ![i] = LastTwo(@, "out")]
    \/ Passes(Hovers)

SpecHover == Init /\ [][NextHover]_vars

\* ------------------------------------------------------------- todo
\* The list stays within MaxTodos records.
CanAdd == Len(cells["todo"][1]) + Count(pending["todo"][1], "concat") < MaxTodos

RenderedIds == {view["todo"].todos[k].id : k \in 1..Len(view["todo"].todos)}

\* Adding only; the observer logs the text each handleSubmit call submits.
NextAdd ==
    \/ \E text \in Texts : onChange(text) /\ UNCHANGED log
    \/ /\ CanAdd
       /\ handleSubmit
       /\ log' = [log EXCEPT !["todo"] = Append(@, view["todo"].input)]
    \/ Passes({"todo"})

SpecAdd == Init /\ [][NextAdd]_vars

NextTodo ==
    \/ \E text \in Texts : onChange(text) /\ UNCHANGED log
    \/ CanAdd /\ handleSubmit /\ UNCHANGED log
    \/ \E id \in RenderedIds : removeTodo(id) /\ UNCHANGED log
    \/ Passes({"todo"})

SpecTodo == Init /\ [][NextTodo]_vars

\* ------------------------------------------------------------- theme
\* The observer logs each click and whether the button clicked was fresh:
\* no earlier request was still waiting for its render pass.
NextTheme ==
    \/ /\ Len(log["theme"]) < MaxClicks
       /\ click
       /\ log' = [log EXCEPT !["theme"] = Append(@, status["theme"] = "clean")]
    \/ Passes({"theme"})

SpecTheme == Init /\ [][NextTheme]_vars

\* ------------------------------------------------------------- rules
Labels == {"x", "y", "z"}

NextRules ==
    \/ toggle /\ UNCHANGED log
    \/ \E label \in Labels : rename(label) /\ UNCHANGED log
    \/ Passes({"gated"})

SpecRules == Init /\ [][NextRules]_vars

\* ------------------------------------------------------------- properties
\* String.prototype.trim: the text without leading and trailing spaces.
RECURSIVE Trim(_)
Trim(t) ==
    IF t = <<>> THEN t
    ELSE IF Head(t) = " " THEN Trim(Tail(t))
    ELSE IF t[Len(t)] = " " THEN Trim(SubSeq(t, 1, Len(t) - 1))
    ELSE t

TextsOf(todos) == [k \in 1..Len(todos) |-> todos[k].text]
IdsOf(todos) == {todos[k].id : k \in 1..Len(todos)}
Occurrences(q, i) == Cardinality({k \in 1..Len(q) : q[k] = i})
Last(q) == q[Len(q)]

\* A step that is a render pass of instance i.
PassOf(i) ==
    /\ renderQueue # <<>>
    /\ Head(renderQueue) = i
    /\ renderQueue' = Tail(renderQueue)

\* A step in which a handler of instance i requested an update.
HandlerOf(i) == \E c \in DOMAIN pending[i] : Len(pending'[i][c]) > Len(pending[i][c])

TodoList == cells["todo"][1]
TodoQueue == pending["todo"][1]
InputQueue == pending["todo"][2]

\* C1: a render pass that commits only handleSubmit calls made on an
\* empty or whitespace-only input leaves the todo list as it was.
C1_BlankAddIsNoOp ==
    [][(/\ PassOf("todo")
        /\ TodoQueue # <<>>
        /\ \A k \in 1..Len(TodoQueue) :
              TodoQueue[k].kind = "concat" /\ Trim(TodoQueue[k].arg) = Empty)
       => cells'["todo"][1] = TodoList]_vars

\* C2: starting from the empty list and with no removals, once the updates
\* of a sequence of handleSubmit calls with non-empty text are committed the
\* list holds one record per call, carrying the calls' texts in call order.
C2_AddsAppendInOrder ==
    (/\ TodoQueue = <<>>
     /\ \A k \in 1..Len(log["todo"]) : Trim(log["todo"][k]) # Empty)
    => /\ Len(TodoList) = Len(log["todo"])
       /\ TextsOf(TodoList) = log["todo"]
       /\ view["todo"].todos = TodoList

C2_TwoAddsCommitted ==
    /\ TodoQueue = <<>>
    /\ log["todo"] = <<<<"a">>, <<"b">>>>
    /\ TextsOf(view["todo"].todos) = <<<<"a">>, <<"b">>>>

\* C3: a render pass committing one removeTodo(id) leaves the list
\* unchanged when no record has that id, and otherwise removes exactly one
\* record, that one, keeping the others in order.
C3_RemoveExactlyOne ==
    [][(/\ PassOf("todo")
        /\ Len(TodoQueue) = 1
        /\ TodoQueue[1].kind = "filter")
       => LET id == TodoQueue[1].arg
              after == cells'["todo"][1]
          IN  IF id \notin IdsOf(TodoList)
              THEN after = TodoList
              ELSE /\ Len(after) = Len(TodoList) - 1
                   /\ \E k \in 1..Len(TodoList) :
                         /\ TodoList[k].id = id
                         /\ after = SubSeq(TodoList, 1, k - 1)
                                    \o SubSeq(TodoList, k + 1, Len(TodoList))]_vars

\* C3 with the ids of the list distinct.
C3_RemoveOneOfDistinct ==
    [][(/\ PassOf("todo")
        /\ Len(TodoQueue) = 1
        /\ TodoQueue[1].kind = "filter"
        /\ \A k, m \in 1..Len(TodoList) : k # m => TodoList[k].id # TodoList[m].id)
       => LET id == TodoQueue[1].arg
              after == cells'["todo"][1]
          IN  IF id \notin IdsOf(TodoList)
              THEN after = TodoList
              ELSE /\ Len(after) = Len(TodoList) - 1
                   /\ \E k \in 1..Len(TodoList) :
                         /\ TodoList[k].id = id
                         /\ after = SubSeq(TodoList, 1, k - 1)
                                    \o SubSeq(TodoList, k + 1, Len(TodoList))]_vars

\* C4: hovering starts false, and once the pass after the last handler call
\* has run it is true when that call was mouseOver and false when it was
\* mouseOut, also when mouseOver was called twice in a row.
C4_HoverFollowsLastEvent ==
    \A i \in Hovers :
        pending[i][1] = <<>>
        => /\ view[i].hovering = (log[i] # <<>> /\ Last(log[i]) = "over")
           /\ view[i].tooltip = view[i].hovering
           /\ cells[i][1] = view[i].hovering

C4_EnteredTwice ==
    \E i \in Hovers :
        /\ log[i] = <<"over", "over">>
        /\ pending[i][1] = <<>>
        /\ view[i].hovering = TRUE

\* C5: a handler call or a render pass of one hover instance leaves the
\* cell, the queue, the state and the rendered hovering value of the other
\* instance unchanged.
C5_HoverInstancesIndependent ==
    [][\A i \in Hovers :
          (HandlerOf(i) \/ PassOf(i))
          => \A j \in Hovers \ {i} :
                /\ view'[j] = view[j]
                /\ cells'[j] = cells[j]
                /\ pending'[j] = pending[j]
                /\ status'[j] = status[j]]_vars

C5_BothHoveredApart ==
    /\ log["info1"] # <<>>
    /\ log["info2"] # <<>>
    /\ pending["info1"][1] = <<>>
    /\ pending["info2"][1] = <<>>
    /\ view["info1"].hovering = TRUE
    /\ view["info2"].hovering = FALSE

\* C6: an instance has at most one render pass queued however many times
\* scheduleRender was called since its last pass; it is queued exactly when
\* it is dirty, and the one pass leaves it clean with nothing pending.
C6_OnePassQueued ==
    \A i \in Instances :
        /\ Occurrences(renderQueue, i) <= 1
        /\ Queued(renderQueue, i) <=> status[i] = "dirty"
        /\ status[i] = "dirty" <=> \E c \in DOMAIN pending[i] : pending[i][c] # <<>>

C6_TwoCallsOnePass ==
    \E i \in Hovers :
        /\ Len(pending[i][1]) >= 2
        /\ Occurrences(renderQueue, i) = 1

\* C7: a handler call changes no cell and no rendered value; the next pass
\* of the instance commits the queued requests in request order: the input
\* cell takes the last value requested, and every handleSubmit call made
\* since the previous pass appends its record, in call order.
C7_BatchedUpdatesCommitInOrder ==
    /\ [][~(\E i \in Instances : PassOf(i)) => cells' = cells /\ view' = view]_vars
    /\ [][PassOf("todo")
          => /\ cells'["todo"][2] = IF InputQueue = <<>> THEN cells["todo"][2]
                                    ELSE Last(InputQueue).arg
             /\ TextsOf(cells'["todo"][1])
                  = TextsOf(TodoList)
                    \o SubSeq(log["todo"], Len(TodoList) + 1, Len(log["todo"]))
             /\ pending'["todo"] = NoPending(cells["todo"])]_vars

C7_TwoSubmitsQueued ==
    /\ Len(TodoQueue) = 2
    /\ TodoQueue[1].kind = "concat"
    /\ TodoQueue[2].kind = "concat"
    /\ Len(log["todo"]) = Len(TodoList) + 2
    /\ view["todo"].todos = TodoList
    /\ renderQueue = <<"todo">>

\* C8: a pass whose cell-call count differs from the previous pass's puts
\* the instance in the failed state, which it never leaves; while an
\* instance has not failed every cell position is bound to the call site
\* that created it.
C8_CallCountMismatchFails ==
    /\ [](\A i \in Instances :
            status[i] # "failed"
            => /\ sites[i] = CallSites(i, InitialCells(i))
               /\ callCount[i] = Len(sites[i])
               /\ Len(cells[i]) = callCount[i])
    /\ [][\A i \in Instances :
            /\ (PassOf(i) /\ Len(CallSites(i, cells'[i])) # callCount[i])
               => status'[i] = "failed"
            /\ status[i] = "failed" => status'[i] = "failed"]_vars

C8_Failed ==
    /\ status["gated"] = "failed"
    /\ cells["gated"][1] = TRUE
    /\ sites["gated"] = <<"open", "label">>

\* C9: the records of the todo list have pairwise distinct ids.
C9_DistinctIds ==
    \A k, m \in 1..Len(TodoList) : k # m => TodoList[k].id # TodoList[m].id

\* C10 as stated: whenever no click waits for its pass, the theme is light
\* exactly when the number of clicks so far is even.
C10_ParityOfClicks ==
    pending["theme"][1] = <<>>
    => (cells["theme"][1] = "light" <=> Len(log["theme"]) % 2 = 0)

\* C10 amended: the theme is light or dark, the rendered button requests
\* the other theme, and when every click was made on a fresh button the
\* theme is light exactly when the number of clicks is even.
C10_FlipPerFreshClick ==
    /\ cells["theme"][1] \in {"light", "dark"}
    /\ view["theme"].theme = cells["theme"][1]
    /\ view["theme"].button \in {"light", "dark"} \ {view["theme"].theme}
    /\ (/\ pending["theme"][1] = <<>>
        /\ \A k \in 1..Len(log["theme"]) : log["theme"][k])
       => (cells["theme"][1] = "light" <=> Len(log["theme"]) % 2 = 0)

C10_ThreeFreshClicks ==
    /\ Len(log["theme"]) = 3
    /\ \A k \in 1..3 : log["theme"][k]
    /\ pending["theme"][1] = <<>>
    /\ view["theme"].theme = "dark"

====
